---- MODULE Spec2Model ----
(***************************************************************************)
(* Model of src/lib/proxy.ts: the proxy set-up of the HTTP client.  The    *)
(* environment is read once by setupGlobalProxy, which installs a request  *)
(* interceptor; every outgoing request then passes through the             *)
(* interceptor, which evaluates NO_PROXY, selects a proxy URL by the       *)
(* target's scheme, and injects the cached agents of that proxy URL.       *)
(*                                                                         *)
(* Strings are sequences of one-character strings, so that split, trim,    *)
(* endsWith, the URL parser and the masking regular expression are         *)
(* computed character by character.  The alphabet has lower-case letters   *)
(* only; the case folding of the URL parser is the identity on it.         *)
(***************************************************************************)
EXTENDS Integers, Sequences, FiniteSets, TLC

\* ------------------------------------------------------------------ strings

Digits == {"0", "1", "2", "3", "4", "5", "6", "7", "8", "9"}

DigitVal(c) ==
    CASE c = "0" -> 0 [] c = "1" -> 1 [] c = "2" -> 2 [] c = "3" -> 3
      [] c = "4" -> 4 [] c = "5" -> 5 [] c = "6" -> 6 [] c = "7" -> 7
      [] c = "8" -> 8 [] c = "9" -> 9

\* The value `undefined` where the code holds a number or undefined.
Undefined == -1

\* The value NaN: parseInt of a text that does not start with a digit.
NaN == -2

Drop(s, n) == SubSeq(s, n + 1, Len(s))

Take(s, n) == SubSeq(s, 1, n)

\* String.prototype.startsWith
StartsWith(s, pre) ==
    Len(pre) <= Len(s) /\ Take(s, Len(pre)) = pre

\* String.prototype.endsWith
EndsWith(s, suf) ==
    Len(suf) <= Len(s) /\ Drop(s, Len(s) - Len(suf)) = suf

\* String.prototype.indexOf for one character, 1-based; 0 when absent.
IndexOf(s, c) ==
    IF \E i \in 1..Len(s) : s[i] = c
    THEN CHOOSE i \in 1..Len(s) : s[i] = c /\ \A j \in 1..(i - 1) : s[j] # c
    ELSE 0

\* String.prototype.lastIndexOf for one character, 1-based; 0 when absent.
LastIndexOf(s, c) ==
    IF \E i \in 1..Len(s) : s[i] = c
    THEN CHOOSE i \in 1..Len(s) : s[i] = c /\ \A j \in (i + 1)..Len(s) : s[j] # c
    ELSE 0

\* String.prototype.split on a one-character separator: the empty string
\* splits into one empty piece.
RECURSIVE Split(_, _)
Split(s, c) ==
    LET i == IndexOf(s, c)
    IN  IF i = 0 THEN <<s>>
        ELSE <<Take(s, i - 1)>> \o Split(Drop(s, i), c)

RECURSIVE TrimStart(_)
TrimStart(s) ==
    IF s # <<>> /\ s[1] = " " THEN TrimStart(Tail(s)) ELSE s

RECURSIVE TrimEnd(_)
TrimEnd(s) ==
    IF s # <<>> /\ s[Len(s)] = " " THEN TrimEnd(Take(s, Len(s) - 1)) ELSE s

\* String.prototype.trim
Trim(s) == TrimEnd(TrimStart(s))

\* Array.prototype.filter(Boolean) on an array of strings: drops the empty ones.
FilterNonEmpty(xs) == SelectSeq(xs, LAMBDA x : x # <<>>)

\* Array.prototype.map((s) => s.trim())
MapTrim(xs) == [i \in 1..Len(xs) |-> Trim(xs[i])]

RECURSIVE DigitsValue(_, _)
DigitsValue(s, acc) ==
    IF s = <<>> \/ s[1] \notin Digits THEN acc
    ELSE DigitsValue(Tail(s), acc * 10 + DigitVal(s[1]))

\* parseInt(s, 10): leading blanks are skipped, the leading digits are read,
\* and a text with no leading digit gives NaN.
ParseInt(s) ==
    LET t == TrimStart(s)
    IN  IF t = <<>> \/ t[1] \notin Digits THEN NaN ELSE DigitsValue(t, 0)

\* a || b on strings: the empty string is falsy.
OrElse(a, b) == IF a # <<>> THEN a ELSE b

\* ------------------------------------------------------------- URL parser

HttpStr == <<"h", "t", "t", "p">>

HttpsStr == <<"h", "t", "t", "p", "s">>

WsStr == <<"w", "s">>

SpecialSchemes == {HttpStr, HttpsStr, WsStr}

\* The default port of a special scheme, as the text the parser elides.
DefaultPort(scheme) ==
    IF scheme = HttpsStr THEN <<"4", "4", "3">> ELSE <<"8", "0">>

SchemeChars ==
    {"a", "b", "c", "h", "k", "o", "p", "q", "s", "t", "u", "w", "x", "z"}
        \cup Digits \cup {"+", "-", "."}

RECURSIVE StripSlashes(_)
StripSlashes(s) ==
    IF s # <<>> /\ s[1] = "/" THEN StripSlashes(Tail(s)) ELSE s

InvalidURL == [ok |-> FALSE, protocol |-> <<>>, userinfo |-> <<>>,
               hostname |-> <<>>, port |-> <<>>, pathname |-> <<>>]

\* The authority text of "authority/path": what precedes the first "/".
AuthorityOf(rest) ==
    IF IndexOf(rest, "/") = 0 THEN rest ELSE Take(rest, IndexOf(rest, "/") - 1)

\* The path text of "authority/path": from the first "/" on.
PathOf(rest) ==
    IF IndexOf(rest, "/") = 0 THEN <<>> ELSE Drop(rest, IndexOf(rest, "/") - 1)

\* The userinfo of [userinfo@]host[:port]: what precedes the last "@".
UserinfoOf(auth) ==
    IF LastIndexOf(auth, "@") = 0 THEN <<>>
    ELSE Take(auth, LastIndexOf(auth, "@") - 1)

\* host[:port] of [userinfo@]host[:port]
HostPortOf(auth) == Drop(auth, LastIndexOf(auth, "@"))

HostOf(hostport) ==
    IF IndexOf(hostport, ":") = 0 THEN hostport
    ELSE Take(hostport, IndexOf(hostport, ":") - 1)

PortOf(hostport) ==
    IF IndexOf(hostport, ":") = 0 THEN <<>>
    ELSE Drop(hostport, IndexOf(hostport, ":"))

\* The URL of the parts, or InvalidURL: a special scheme needs a host, a port
\* is digits only, and a port that is the default of the scheme is elided.
MakeURL(scheme, userinfo, host, portTxt, path) ==
    IF (scheme \in SpecialSchemes /\ host = <<>>)
       \/ (\E i \in 1..Len(portTxt) : portTxt[i] \notin Digits)
       \/ (\E i \in 1..Len(host) : host[i] \in {" ", "*", ","})
    THEN InvalidURL
    ELSE [ok |-> TRUE, protocol |-> scheme, userinfo |-> userinfo,
          hostname |-> host,
          port |-> IF scheme \in SpecialSchemes /\ portTxt = DefaultPort(scheme)
                   THEN <<>> ELSE portTxt,
          pathname |-> IF scheme \in SpecialSchemes /\ path = <<>>
                       THEN <<"/">> ELSE path]

\* The authority [userinfo@]host[:port] and the path after it.
ParseAuthority(scheme, rest) ==
    MakeURL(scheme,
            UserinfoOf(AuthorityOf(rest)),
            HostOf(HostPortOf(AuthorityOf(rest))),
            PortOf(HostPortOf(AuthorityOf(rest))),
            PathOf(rest))

\* What follows "scheme:". A special scheme takes its authority after any
\* number of slashes; any other scheme has an authority only after "//".
ParseAfterScheme(scheme, rest) ==
    IF scheme \in SpecialSchemes
    THEN ParseAuthority(scheme, StripSlashes(rest))
    ELSE IF StartsWith(rest, <<"/", "/">>)
    THEN ParseAuthority(scheme, Drop(rest, 2))
    ELSE [ok |-> TRUE, protocol |-> scheme, userinfo |-> <<>>,
          hostname |-> <<>>, port |-> <<>>, pathname |-> rest]

\* new URL(s): the parsed URL, or InvalidURL where the constructor throws.
\* An absolute URL starts with a scheme (a letter, then scheme characters)
\* and a colon; a special scheme needs a host; a port that is the default
\* of the scheme is elided.
ParseURL(s) ==
    IF IndexOf(s, ":") <= 1 THEN InvalidURL
    ELSE IF s[1] \in Digits \cup {"+", "-", "."}
            \/ (\E i \in 1..(IndexOf(s, ":") - 1) : s[i] \notin SchemeChars)
         THEN InvalidURL
    ELSE ParseAfterScheme(Take(s, IndexOf(s, ":") - 1), Drop(s, IndexOf(s, ":")))

\* URL.prototype.toString
Serialize(u) ==
    IF u.hostname = <<>> /\ u.protocol \notin SpecialSchemes
    THEN u.protocol \o <<":">> \o u.pathname
    ELSE u.protocol \o <<":", "/", "/">>
           \o (IF u.userinfo = <<>> THEN <<>> ELSE u.userinfo \o <<"@">>)
           \o u.hostname
           \o (IF u.port = <<>> THEN <<>> ELSE <<":">> \o u.port)
           \o u.pathname

\* The directory of a path: up to its last "/"; "/" when it has none.
DirOf(path) ==
    IF LastIndexOf(path, "/") = 0 THEN <<"/">>
    ELSE Take(path, LastIndexOf(path, "/"))

\* url resolved: own is url parsed alone, b the base parsed.
Resolved(url, own, b) ==
    IF IndexOf(url, ":") > 1 /\ own.ok THEN own
    ELSE IF ~b.ok THEN InvalidURL
    ELSE IF StartsWith(url, <<"/">>) THEN [b EXCEPT !.pathname = url]
    ELSE [b EXCEPT !.pathname = DirOf(b.pathname) \o url]

\* new URL(url, base): url alone when it is absolute, else url resolved
\* against base (which must parse); InvalidURL where the constructor throws.
ResolveURL(url, base) == Resolved(url, ParseURL(url), ParseURL(base))

\* ------------------------------------------------------------ environment

EnvNames ==
    {"HTTP_PROXY", "http_proxy", "HTTPS_PROXY", "https_proxy", "ALL_PROXY",
     "all_proxy", "ALLPROXY", "allproxy", "NO_PROXY", "no_proxy"}

\* name.toLowerCase()
ToLowerCase(name) ==
    CASE name = "HTTP_PROXY" -> "http_proxy"
      [] name = "HTTPS_PROXY" -> "https_proxy"
      [] name = "ALL_PROXY" -> "all_proxy"
      [] name = "ALLPROXY" -> "allproxy"
      [] name = "NO_PROXY" -> "no_proxy"
      [] OTHER -> name

VARIABLES
    env,                  \* process.env: name -> text, <<>> when unset or empty
    phase,                \* "start", "idle", "dispatch", "returned"; "input", "done"
    httpProxyUrl,         \* setupGlobalProxy: const httpProxyUrl
    httpsProxyUrl,        \* setupGlobalProxy: const httpsProxyUrl
    noProxyList,          \* setupGlobalProxy: const noProxyList
    installed,            \* whether axios.interceptors.request holds the interceptor
    defaultsProxy,        \* axios.defaults.proxy
    logLine,              \* the line given to logger.info
    agentCache,           \* the Map agentCache: proxy URL -> Agents
    nextAgent,            \* the identity the next constructed agent object gets
    issued,               \* every <<proxyUrl, Agents>> createAgents has returned
    config,               \* the request configuration in flight
    entry,                \* the configuration as it entered the last pass
    passes,               \* passes of the configuration through the interceptor
    trace,                \* what the last pass did
    fnUrl,                \* isBypassed called alone: its urlStr
    fnList,               \* isBypassed called alone: its noProxyList
    fnResult              \* isBypassed called alone: its outcome

vars == <<env, phase, httpProxyUrl, httpsProxyUrl, noProxyList, installed,
          defaultsProxy, logLine, agentCache, nextAgent, issued, config, entry,
          passes, trace, fnUrl, fnList, fnResult>>

\* getEnv: process.env[name] || process.env[name.toLowerCase()]
GetEnv(e, name) == OrElse(e[name], e[ToLowerCase(name)])

\* getProxyUrlFor(protocol)
GetProxyUrlFor(e, protocol) ==
    LET all == OrElse(GetEnv(e, "ALL_PROXY"), GetEnv(e, "ALLPROXY"))
    IN  IF protocol = "http" THEN OrElse(GetEnv(e, "HTTP_PROXY"), all)
        ELSE OrElse(GetEnv(e, "HTTPS_PROXY"), all)

\* parseNoProxy: split on commas, trim, drop the empty entries.
ParseNoProxy(e) ==
    FilterNonEmpty(MapTrim(Split(OrElse(GetEnv(e, "NO_PROXY"), <<>>), ",")))

\* ----------------------------------------------------------------- bypass

\* hostnameWithPort: u.port is a text; the empty text gives undefined.
HostnameWithPort(u) ==
    [host |-> u.hostname,
     port |-> IF u.port # <<>> THEN ParseInt(u.port) ELSE Undefined]

\* The truthiness of a port: undefined and 0 are falsy.
Truthy(port) == port # Undefined /\ port # NaN /\ port # 0

FirstEntryIsWildcard(list) == list # <<>> /\ list[1] = <<"*">>

\* noProxyList.includes("*")
HasWildcard(list) == \E i \in 1..Len(list) : list[i] = <<"*">>

SuffixPatternNoDot(h) == h

SuffixPatternAlwaysDot(h) == <<".">> \o h

\* h.startsWith(".") ? h : `.${h}`
SuffixPattern(h) == IF StartsWith(h, <<".">>) THEN h ELSE <<".">> \o h

\* entry.split(":").map((s) => s.trim()).filter(Boolean)
EntryParts(e) == FilterNonEmpty(MapTrim(Split(e, ":")))

\* The for loop of isBypassed from entry i on: "true" on the first match,
\* "false" when the entries are exhausted, "throw" where h is undefined and
\* h.startsWith raises.
RECURSIVE BypassLoop(_, _, _, _)
BypassLoop(host, port, list, i) ==
    IF i > Len(list) THEN "false"
    ELSE LET parts == EntryParts(list[i])
         IN  IF Len(parts) >= 2 /\ Truthy(port) /\ ParseInt(parts[2]) # port
             THEN BypassLoop(host, port, list, i + 1)
             ELSE IF parts = <<>> THEN "throw"
             ELSE IF parts[1] = host THEN "true"
             ELSE IF EndsWith(host, SuffixPattern(parts[1])) THEN "true"
             ELSE BypassLoop(host, port, list, i + 1)

\* isBypassed once urlStr is parsed into u.
BypassedFor(u, hp, list) ==
    IF ~u.ok THEN "false"
    ELSE IF list = <<>> THEN "false"
    ELSE IF HasWildcard(list) THEN "true"
    ELSE BypassLoop(hp.host, hp.port, list, 1)

\* The URL handed to hostnameWithPort.
BypassedParsed(u, list) == BypassedFor(u, HostnameWithPort(u), list)

\* isBypassed(urlStr, noProxyList): "true", "false", or "throw".
IsBypassed(urlStr, list) == BypassedParsed(ParseURL(urlStr), list)

\* ------------------------------------------------------------------ agents

UndefinedAgent == [kind |-> "undefined", id |-> 0]

NoAgents == [httpAgent |-> UndefinedAgent, httpsAgent |-> UndefinedAgent]

EmptyCache == [k \in {} |-> NoAgents]

SocksStr == <<"s", "o", "c", "k", "s">>

CacheNeverHas(cache, proxyUrl) == FALSE

\* agentCache.has(proxyUrl)
CacheHas(cache, proxyUrl) == proxyUrl \in DOMAIN cache

\* agentCache.set(proxyUrl, agents)
CacheSet(cache, proxyUrl, agents) ==
    [k \in DOMAIN cache \cup {proxyUrl} |->
        IF k = proxyUrl THEN agents ELSE cache[k]]

\* The scheme createAgents reads off the proxy URL, "http" when it does not parse.
ProxyScheme(proxyUrl) ==
    LET u == ParseURL(proxyUrl)
    IN  IF u.ok THEN u.protocol ELSE HttpStr

\* createAgents(proxyUrl) on the cache `cache`, the next object identity being
\* `next`.  The HTTP and HTTPS agent constructors are library code: given a
\* proxy URL that does not parse they throw in the releases that parse it with
\* new URL, and construct an agent in the releases that do not (`lenient`).
CreateAgents(proxyUrl, cache, next, lenient) ==
    IF CacheHas(cache, proxyUrl)
    THEN [threw |-> FALSE, agents |-> cache[proxyUrl], cache |-> cache, next |-> next]
    ELSE IF StartsWith(ProxyScheme(proxyUrl), SocksStr)
    THEN LET agent  == [kind |-> "SocksProxyAgent", id |-> next]
             agents == [httpAgent |-> agent, httpsAgent |-> agent]
         IN  [threw |-> FALSE, agents |-> agents,
              cache |-> CacheSet(cache, proxyUrl, agents), next |-> next + 1]
    ELSE IF ~ParseURL(proxyUrl).ok /\ ~lenient
    THEN [threw |-> TRUE, agents |-> NoAgents, cache |-> cache, next |-> next]
    ELSE LET agents == [httpAgent |-> [kind |-> "HttpProxyAgent", id |-> next],
                        httpsAgent |-> [kind |-> "HttpsProxyAgent", id |-> next + 1]]
         IN  [threw |-> FALSE, agents |-> agents,
              cache |-> CacheSet(cache, proxyUrl, agents), next |-> next + 2]

\* ------------------------------------------------------------- interceptor

\* /^(http|https):\/\//i.test(url)
HasHttpPrefix(url) ==
    \/ StartsWith(url, HttpStr \o <<":", "/", "/">>)
    \/ StartsWith(url, HttpsStr \o <<":", "/", "/">>)

\* new URL(...).toString(), threw where the constructor raises.
SerializedOrThrow(r) ==
    IF r.ok THEN [threw |-> FALSE, url |-> Serialize(r)]
    ELSE [threw |-> TRUE, url |-> <<>>]

\* The absoluteUrl of the interceptor; threw where new URL(url, baseURL) raises.
AbsoluteUrl(cfg) ==
    IF cfg.url # <<>> /\ HasHttpPrefix(cfg.url)
    THEN [threw |-> FALSE, url |-> cfg.url]
    ELSE IF cfg.baseURL # <<>> /\ cfg.url # <<>>
    THEN SerializedOrThrow(ResolveURL(cfg.url, cfg.baseURL))
    ELSE [threw |-> FALSE, url |-> cfg.url]

SelectProxyUrlSwapped(protocol, http, https) ==
    IF protocol = HttpsStr THEN OrElse(http, https) ELSE OrElse(https, http)

\* proxyUrlToUse: the HTTPS proxy first for an https target, else the HTTP one first.
SelectProxyUrl(protocol, http, https) ==
    IF protocol = HttpsStr THEN OrElse(https, http) ELSE OrElse(http, https)

InjectAgentsOverwriting(cfg, agents) ==
    [cfg EXCEPT !.proxy = "false",
                !.httpAgent = agents.httpAgent,
                !.httpsAgent = agents.httpsAgent]

\* config.proxy = false, and each agent field filled where it is falsy.
InjectAgents(cfg, agents) ==
    [cfg EXCEPT !.proxy = "false",
                !.httpAgent = IF cfg.httpAgent = UndefinedAgent
                              THEN agents.httpAgent ELSE cfg.httpAgent,
                !.httpsAgent = IF cfg.httpsAgent = UndefinedAgent
                               THEN agents.httpsAgent ELSE cfg.httpsAgent]

PassThroughDisablingProxy(cfg) == [cfg EXCEPT !.proxy = "false"]

\* `return config` before anything was assigned to it, and after the catch.
PassThrough(cfg) == cfg

\* What a pass leaves behind when it stops before the agents are obtained.
Stopped(cfg, cache, next, abs, bypass, threw, sel) ==
    [config |-> PassThrough(cfg), cache |-> cache, next |-> next,
     trace |-> [absoluteUrl |-> abs, bypass |-> bypass, threw |-> threw,
                proxyUrlToUse |-> sel, created |-> FALSE]]

\* Lines 123-127: the agents were asked for; inject them unless that raised.
AfterCreate(cfg, cache, next, url, bp, sel, got) ==
    IF got.threw THEN Stopped(cfg, cache, next, url, bp, TRUE, sel)
    ELSE [config |-> InjectAgents(cfg, got.agents),
          cache |-> got.cache, next |-> got.next,
          trace |-> [absoluteUrl |-> url, bypass |-> bp, threw |-> FALSE,
                     proxyUrlToUse |-> sel, created |-> TRUE]]

\* Lines 121-123: no proxy URL selected, or createAgents.
AfterSelect(cfg, cache, next, lenient, url, bp, sel) ==
    IF sel = <<>> THEN Stopped(cfg, cache, next, url, bp, FALSE, <<>>)
    ELSE AfterCreate(cfg, cache, next, url, bp, sel,
                     CreateAgents(sel, cache, next, lenient))

\* Lines 112-119: bypass, the target's protocol (new URL may raise), selection.
AfterBypass(cfg, cache, next, lenient, url, bp, u) ==
    IF bp = "throw" THEN Stopped(cfg, cache, next, url, bp, TRUE, <<>>)
    ELSE IF bp = "true" THEN Stopped(cfg, cache, next, url, bp, FALSE, <<>>)
    ELSE IF ~u.ok THEN Stopped(cfg, cache, next, url, bp, TRUE, <<>>)
    ELSE AfterSelect(cfg, cache, next, lenient, url, bp,
                     SelectProxyUrl(u.protocol, httpProxyUrl, httpsProxyUrl))

\* Lines 110-112: no absolute URL, or the bypass evaluation.
AfterAbsolute(cfg, cache, next, lenient, abs) ==
    IF abs.threw THEN Stopped(cfg, cache, next, <<>>, "none", TRUE, <<>>)
    ELSE IF abs.url = <<>>
    THEN Stopped(cfg, cache, next, <<>>, "none", FALSE, <<>>)
    ELSE AfterBypass(cfg, cache, next, lenient, abs.url,
                     IsBypassed(abs.url, noProxyList), ParseURL(abs.url))

\* One pass of the request interceptor over cfg.
Interceptor(cfg, cache, next, lenient) ==
    AfterAbsolute(cfg, cache, next, lenient, AbsoluteUrl(cfg))

\* -------------------------------------------------------------------- mask

\* Where /([^:\/]{2}).+@/ first matches: the leftmost two characters that are
\* neither ":" nor "/" and have at least one character and then an "@" after
\* them; 0 when there is no match.
MaskStart(s) ==
    LET ok(i) == /\ s[i] \notin {":", "/"}
                 /\ s[i + 1] \notin {":", "/"}
                 /\ \E j \in (i + 3)..Len(s) : s[j] = "@"
    IN  IF \E i \in 1..(Len(s) - 3) : ok(i)
        THEN CHOOSE i \in 1..(Len(s) - 3) :
                 ok(i) /\ \A k \in 1..(i - 1) : ~ok(k)
        ELSE 0

\* mask(url): the match is replaced by its two first characters and "***@";
\* the greedy .+ runs to the last "@".
Mask(url) ==
    LET i == MaskStart(url)
    IN  IF url = <<>> \/ i = 0 THEN url
        ELSE Take(url, i + 1) \o <<"*", "*", "*", "@">>
               \o Drop(url, LastIndexOf(url, "@"))

\* ------------------------------------------------------------------ bounds

\* At most this many of the eight proxy variables are set in the environment.
MaxSetVars == 2

\* A request configuration passes through the interceptor at most this often.
MaxPasses == 2

\* The interceptor is not entered once this many agent objects exist.
MaxAgents == 6

\* isBypassed is called alone on lists of at most this many entries.
MaxEntries == 2

\* ------------------------------------------------------------------- inputs

ProxyVarNames == EnvNames \ {"NO_PROXY", "no_proxy"}

\* http://us:pw@p
ProxyWithCredentials ==
    <<"h", "t", "t", "p", ":", "/", "/", "u", "s", ":", "p", "w", "@", "p">>

\* socks://q
ProxySocks == <<"s", "o", "c", "k", "s", ":", "/", "/", "q">>

\* 1:8, which new URL rejects
ProxyUnparsable == <<"1", ":", "8">>

ProxyValues == {ProxyWithCredentials, ProxySocks}

\* The NO_PROXY texts:  a  |  a:8 , * ,:  |  :,b.a  |  b.a,:  |  :,*  |  *,:
NoProxyTexts ==
    {<<"a">>,
     <<" ", "a", ":", "8", " ", ",", " ", "*", " ", ",", ":">>,
     <<":", ",", "b", ".", "a">>,
     <<"b", ".", "a", ",", ":">>,
     <<":", ",", "*">>,
     <<"*", ",", ":">>}

\* NO_PROXY and no_proxy as <<upper, lower>>.
NoProxySettings ==
    {<<<<>>, <<>>>>}
        \cup {<<t, <<>>>> : t \in NoProxyTexts}
        \cup {<<<<>>, <<"a">>>>, <<<<"*">>, <<"a">>>>}

ProxySettings ==
    {f \in UNION {[S -> ProxyValues] :
                     S \in {T \in SUBSET ProxyVarNames : Cardinality(T) <= MaxSetVars}} :
        TRUE}

\* The settings every NO_PROXY text is combined with.
ProxySettingsFew ==
    {f \in ProxySettings :
        \/ DOMAIN f = {}
        \/ DOMAIN f = {"HTTP_PROXY", "HTTPS_PROXY"} /\ f["HTTP_PROXY"] # f["HTTPS_PROXY"]
        \/ DOMAIN f = {"all_proxy"}}

\* The settings with the proxy URL that does not parse.
ProxySettingsUnparsable ==
    {[n \in {"HTTP_PROXY"} |-> ProxyUnparsable],
     [n \in {"https_proxy"} |-> ProxyUnparsable],
     [n \in {"ALLPROXY"} |-> ProxyUnparsable],
     [n \in {"HTTP_PROXY", "HTTPS_PROXY"} |->
         IF n = "HTTP_PROXY" THEN ProxyUnparsable ELSE ProxyWithCredentials],
     [n \in {"HTTP_PROXY", "HTTPS_PROXY"} |->
         IF n = "HTTP_PROXY" THEN ProxySocks ELSE ProxyUnparsable]}

MakeEnv(f, np) ==
    [n \in EnvNames |->
        IF n \in DOMAIN f THEN f[n]
        ELSE IF n = "NO_PROXY" THEN np[1]
        ELSE IF n = "no_proxy" THEN np[2]
        ELSE <<>>]

Environments ==
    {MakeEnv(f, <<<<>>, <<>>>>) : f \in ProxySettings \cup ProxySettingsUnparsable}
        \cup {MakeEnv(f, np) : f \in ProxySettingsFew, np \in NoProxySettings}

CallerHttpAgent == [kind |-> "caller", id |-> 1]

CallerHttpsAgent == [kind |-> "caller", id |-> 2]

\* url and baseURL of the requests:  http://a, https://a, https://b.a:8/x,
\* ws://a, http:// ; /x alone, on https://b.a and on zz ; no url on https://b.a.
Targets ==
    {<<HttpStr \o <<":", "/", "/", "a">>, <<>>>>,
     <<HttpsStr \o <<":", "/", "/", "a">>, <<>>>>,
     <<HttpsStr \o <<":", "/", "/", "b", ".", "a", ":", "8", "/", "x">>, <<>>>>,
     <<WsStr \o <<":", "/", "/", "a">>, <<>>>>,
     <<HttpStr \o <<":", "/", "/">>, <<>>>>,
     <<<<"/", "x">>, <<>>>>,
     <<<<"/", "x">>, HttpsStr \o <<":", "/", "/", "b", ".", "a">>>>,
     <<<<"/", "x">>, <<"z", "z">>>>,
     <<<<>>, HttpsStr \o <<":", "/", "/", "b", ".", "a">>>>}

\* proxy, httpAgent and httpsAgent as the caller sets them.
CallerFields ==
    {<<"undefined", UndefinedAgent, UndefinedAgent>>,
     <<"callerProxy", CallerHttpAgent, UndefinedAgent>>,
     <<"undefined", UndefinedAgent, CallerHttpsAgent>>}

Requests ==
    {[url |-> t[1], baseURL |-> t[2], proxy |-> c[1], httpAgent |-> c[2],
      httpsAgent |-> c[3]] : t \in Targets, c \in CallerFields}

NoConfig ==
    [url |-> <<>>, baseURL |-> <<>>, proxy |-> "undefined",
     httpAgent |-> UndefinedAgent, httpsAgent |-> UndefinedAgent]

NoTrace ==
    [absoluteUrl |-> <<>>, bypass |-> "none", threw |-> FALSE,
     proxyUrlToUse |-> <<>>, created |-> FALSE]

NoLog == [enabled |-> FALSE, http |-> <<>>, https |-> <<>>, noProxy |-> <<>>]

\* ------------------------------------------------------------------ actions

Init ==
    /\ env \in Environments
    /\ phase = "start"
    /\ httpProxyUrl = <<>>
    /\ httpsProxyUrl = <<>>
    /\ noProxyList = <<>>
    /\ installed = FALSE
    /\ defaultsProxy = "undefined"
    /\ logLine = NoLog
    /\ agentCache = EmptyCache
    /\ nextAgent = 1
    /\ issued = {}
    /\ config = NoConfig
    /\ entry = NoConfig
    /\ passes = 0
    /\ trace = NoTrace
    /\ fnUrl = <<>>
    /\ fnList = <<>>
    /\ fnResult = "none"

\* setupGlobalProxy()
Setup ==
    /\ phase = "start"
    /\ phase' = "idle"
    /\ httpProxyUrl' = GetProxyUrlFor(env, "http")
    /\ httpsProxyUrl' = GetProxyUrlFor(env, "https")
    /\ noProxyList' = ParseNoProxy(env)
    /\ IF httpProxyUrl' = <<>> /\ httpsProxyUrl' = <<>>
       THEN /\ installed' = FALSE
            /\ defaultsProxy' = defaultsProxy
            /\ logLine' = NoLog
       ELSE /\ installed' = TRUE
            /\ defaultsProxy' = "false"
            /\ logLine' = [enabled |-> TRUE,
                           http |-> Mask(httpProxyUrl'),
                           https |-> Mask(httpsProxyUrl'),
                           noProxy |-> noProxyList']
    /\ UNCHANGED <<env, agentCache, nextAgent, issued, config, entry, passes,
                   trace, fnUrl, fnList, fnResult>>

\* The application hands a request configuration to the client.
NewRequest ==
    /\ phase = "idle"
    /\ \E cfg \in Requests :
          /\ config' = cfg
          /\ entry' = cfg
    /\ phase' = "dispatch"
    /\ passes' = 0
    /\ trace' = NoTrace
    /\ UNCHANGED <<env, httpProxyUrl, httpsProxyUrl, noProxyList, installed,
                   defaultsProxy, logLine, agentCache, nextAgent, issued, fnUrl,
                   fnList, fnResult>>

\* The configuration passes through the installed interceptor (again, when
\* the client re-dispatches a configuration it already sent through).
Intercept ==
    /\ phase \in {"dispatch", "returned"}
    /\ installed
    /\ passes < MaxPasses
    /\ nextAgent <= MaxAgents
    /\ \E lenient \in BOOLEAN :
          \E r \in {Interceptor(config, agentCache, nextAgent, lenient)} :
              /\ entry' = config
              /\ config' = r.config
              /\ agentCache' = r.cache
              /\ nextAgent' = r.next
              /\ trace' = r.trace
              /\ issued' = IF r.trace.created
                           THEN issued \cup {<<r.trace.proxyUrlToUse,
                                               r.cache[r.trace.proxyUrlToUse]>>}
                           ELSE issued
    /\ phase' = "returned"
    /\ passes' = passes + 1
    /\ UNCHANGED <<env, httpProxyUrl, httpsProxyUrl, noProxyList, installed,
                   defaultsProxy, logLine, fnUrl, fnList, fnResult>>

\* The request leaves the client; with no interceptor installed it leaves as
\* it was handed in.
Send ==
    /\ \/ phase = "returned"
       \/ phase = "dispatch" /\ ~installed
    /\ phase' = "idle"
    /\ config' = NoConfig
    /\ entry' = NoConfig
    /\ passes' = 0
    /\ trace' = NoTrace
    /\ UNCHANGED <<env, httpProxyUrl, httpsProxyUrl, noProxyList, installed,
                   defaultsProxy, logLine, agentCache, nextAgent, issued, fnUrl,
                   fnList, fnResult>>

Next == Setup \/ NewRequest \/ Intercept \/ Send

Spec == Init /\ [][Next]_vars

\* ------------------------------------------------- isBypassed called alone

\* The entries:  a  .a  b.a  a:8  .a:8  b.a:8  a:80  .a:80  b.a:80  a:0  a:x  *  :
BypassEntries ==
    {h \o p : h \in {<<"a">>, <<".", "a">>, <<"b", ".", "a">>},
              p \in {<<>>, <<":", "8">>, <<":", "8", "0">>}}
        \cup {<<"a", ":", "0">>, <<"a", ":", "x">>, <<"*">>, <<":">>}

BypassLists ==
    UNION {[1..n -> BypassEntries] : n \in 0..MaxEntries}

\* The targets: http and https, hosts a, b.a and ba, written with no port or
\* with port 8, 80, 443 or 0; and the relative /x.
BypassTargets ==
    {s \o <<":", "/", "/">> \o h \o p :
        s \in {HttpStr, HttpsStr},
        h \in {<<"a">>, <<"b", ".", "a">>, <<"b", "a">>},
        p \in {<<>>, <<":", "8">>, <<":", "8", "0">>, <<":", "4", "4", "3">>,
               <<":", "0">>}}
        \cup {<<"/", "x">>}

InitBypass ==
    /\ env = [n \in EnvNames |-> <<>>]
    /\ phase = "input"
    /\ httpProxyUrl = <<>>
    /\ httpsProxyUrl = <<>>
    /\ noProxyList = <<>>
    /\ installed = FALSE
    /\ defaultsProxy = "undefined"
    /\ logLine = NoLog
    /\ agentCache = EmptyCache
    /\ nextAgent = 1
    /\ issued = {}
    /\ config = NoConfig
    /\ entry = NoConfig
    /\ passes = 0
    /\ trace = NoTrace
    /\ fnUrl \in BypassTargets
    /\ fnList \in BypassLists
    /\ fnResult = "none"

\* isBypassed(fnUrl, fnList)
EvalBypass ==
    /\ phase = "input"
    /\ phase' = "done"
    /\ fnResult' = IsBypassed(fnUrl, fnList)
    /\ UNCHANGED <<env, httpProxyUrl, httpsProxyUrl, noProxyList, installed,
                   defaultsProxy, logLine, agentCache, nextAgent, issued, config,
                   entry, passes, trace, fnUrl, fnList>>

NextBypass == EvalBypass

SpecBypass == InitBypass /\ [][NextBypass]_vars

\* ------------------------------------------------------------ properties

\* What the properties read off the texts themselves.

\* The text of a target after "scheme://" and before the path.
WrittenAuthority(url) ==
    LET rest == Drop(url, IndexOf(url, ":") + 2)
        slash == IndexOf(rest, "/")
    IN  IF slash = 0 THEN rest ELSE Take(rest, slash - 1)

\* The port as the target is written with it; <<>> when it is written with none.
WrittenPort(url) ==
    LET auth == WrittenAuthority(url)
        colon == IndexOf(auth, ":")
    IN  IF colon = 0 THEN <<>> ELSE Drop(auth, colon)

\* The host as the target is written with it.
WrittenHost(url) ==
    LET auth == WrittenAuthority(url)
        colon == IndexOf(auth, ":")
    IN  IF colon = 0 THEN auth ELSE Take(auth, colon - 1)

AllDigits(s) == s # <<>> /\ \A i \in 1..Len(s) : s[i] \in Digits

\* A host name: not empty, no colon, no blank, no leading dot, not the wildcard.
IsHostName(h) ==
    /\ h # <<>>
    /\ h[1] # "."
    /\ \A i \in 1..Len(h) : h[i] \notin {":", " ", "*", ","}

\* isBypassed has been called alone on a one-entry list and an absolute target.
SingleEntryCall ==
    /\ phase = "done"
    /\ Len(fnList) = 1
    /\ ParseURL(fnUrl).ok

\* C1: with the single entry h:p and a target whose host is h, isBypassed is
\* true when the target is written with port p and false when it is written
\* with any other port q, a default port of the target's scheme included.
C1_PortMustMatch ==
    LET e     == fnList[1]
        colon == IndexOf(e, ":")
        h     == Take(e, colon - 1)
        p     == Drop(e, colon)
        q     == WrittenPort(fnUrl)
    IN  (/\ SingleEntryCall
         /\ colon > 1
         /\ IsHostName(h)
         /\ AllDigits(p)
         /\ WrittenHost(fnUrl) = h
         /\ q # <<>>)
        => fnResult = IF q = p THEN "true" ELSE "false"

\* C2: with a single entry h that has no port, isBypassed is true when the
\* target's host name t is h or ends with "." and h; when h is a host name it
\* is false for every other t, also for a t that ends with the characters of h
\* without a dot before them.
C2_SuffixMatchAtDotBoundary ==
    LET h == fnList[1]
        t == ParseURL(fnUrl).hostname
    IN  (/\ SingleEntryCall
         /\ h # <<"*">>
         /\ \A i \in 1..Len(h) : h[i] \notin {":", " "})
        => /\ (t = h \/ EndsWith(t, <<".">> \o h)) => fnResult = "true"
           /\ (IsHostName(h) /\ t # h /\ ~EndsWith(t, <<".">> \o h))
                 => fnResult = "false"

\* C2 witness: entry a, target host ba: the characters match, the boundary does not.
C2_Witness ==
    /\ SingleEntryCall
    /\ fnList[1] = <<"a">>
    /\ ParseURL(fnUrl).hostname = <<"b", "a">>
    /\ fnResult = "false"

\* C3 as stated: for a host name h and every absolute target, the entry ".h"
\* gives what the entry "h" gives, the target whose host is exactly h included.
C3_LeadingDotSameAsWithout ==
    LET e == fnList[1]
        h == Tail(e)
    IN  (/\ SingleEntryCall
         /\ Len(e) >= 2
         /\ e[1] = "."
         /\ IsHostName(h))
        => fnResult = IsBypassed(fnUrl, <<h>>)

\* C3 amended: for a host name h and every absolute target whose host is not
\* exactly h, the entry ".h" gives what the entry "h" gives; on the target
\* whose host is exactly h the entry "h" bypasses and the entry ".h" does not.
C3_LeadingDotSameOnSubdomains ==
    LET e == fnList[1]
        h == Tail(e)
        t == ParseURL(fnUrl).hostname
    IN  (/\ SingleEntryCall
         /\ Len(e) >= 2
         /\ e[1] = "."
         /\ IsHostName(h))
        => /\ t # h => fnResult = IsBypassed(fnUrl, <<h>>)
           /\ t = h => fnResult = "false" /\ IsBypassed(fnUrl, <<h>>) = "true"

\* C3 witness: entry .a bypasses the subdomain b.a.
C3_Witness ==
    /\ SingleEntryCall
    /\ fnList[1] = <<".", "a">>
    /\ ParseURL(fnUrl).hostname = <<"b", ".", "a">>
    /\ fnResult = "true"

\* The interceptor has returned from a pass over a valid absolute target.
PassOverAbsoluteTarget ==
    /\ phase = "returned"
    /\ ParseURL(trace.absoluteUrl).ok

\* The three fields the interceptor may assign are as they were on entry.
FieldsAsOnEntry ==
    /\ config.proxy = entry.proxy
    /\ config.httpAgent = entry.httpAgent
    /\ config.httpsAgent = entry.httpsAgent

ListHasStar(list) == <<"*">> \in {list[i] : i \in 1..Len(list)}

\* C4: when the bypass list holds the entry * anywhere, every valid absolute
\* target is bypassed, whatever the other entries are, and the interceptor
\* injects no agent.
C4_WildcardBypassesAll ==
    (PassOverAbsoluteTarget /\ ListHasStar(noProxyList))
        => /\ trace.bypass = "true"
           /\ ~trace.threw
           /\ config = entry

\* C4 witness: the * comes after an entry that has no host, and the target is bypassed.
C4_Witness ==
    /\ PassOverAbsoluteTarget
    /\ Len(noProxyList) = 2
    /\ noProxyList[1] = <<":">>
    /\ noProxyList[2] = <<"*">>
    /\ trace.bypass = "true"
    /\ config = entry

\* The pairs createAgents has returned agree per proxy URL and are the cached ones.
IssuedOncePerProxyUrl ==
    /\ \A x \in issued : \A y \in issued : x[1] = y[1] => x[2] = y[2]
    /\ \A x \in issued : x[1] \in DOMAIN agentCache /\ agentCache[x[1]] = x[2]
    /\ \A k \in DOMAIN agentCache : \A l \in DOMAIN agentCache :
          k # l => {agentCache[k].httpAgent.id, agentCache[k].httpsAgent.id}
                     \cap {agentCache[l].httpAgent.id, agentCache[l].httpsAgent.id} = {}
    /\ (phase = "returned" /\ trace.created)
          => /\ entry.httpAgent = UndefinedAgent
                  => config.httpAgent = agentCache[trace.proxyUrlToUse].httpAgent
             /\ entry.httpsAgent = UndefinedAgent
                  => config.httpsAgent = agentCache[trace.proxyUrlToUse].httpsAgent

\* A step keeps every entry of the cache, with the pair it holds.
CacheEntriesKept ==
    \A k \in DOMAIN agentCache :
        k \in DOMAIN agentCache' /\ agentCache'[k] = agentCache[k]

\* C5: the cache holds one agent pair per proxy URL, an entry once inserted is
\* never replaced or removed, and createAgents returns the same pair for the
\* same proxy URL, so that every request routed through it gets the same agents.
C5_OnePairPerProxyUrl ==
    [](IssuedOncePerProxyUrl) /\ [][CacheEntriesKept]_vars

\* C5 witness: createAgents was called twice with the same proxy URL, and a
\* second proxy URL is cached besides.
C5_Witness ==
    /\ phase = "returned"
    /\ passes = 2
    /\ trace.created
    /\ Cardinality(DOMAIN agentCache) = 2
    /\ Cardinality(issued) = 2

\* The first non-empty value among the variables named, in order.
RECURSIVE FirstSet(_)
FirstSet(names) ==
    IF names = <<>> THEN <<>>
    ELSE IF env[names[1]] # <<>> THEN env[names[1]]
    ELSE FirstSet(Tail(names))

AllProxyNames == <<"ALL_PROXY", "all_proxy", "ALLPROXY", "allproxy">>

EnvHttpProxy == FirstSet(<<"HTTP_PROXY", "http_proxy">> \o AllProxyNames)

EnvHttpsProxy == FirstSet(<<"HTTPS_PROXY", "https_proxy">> \o AllProxyNames)

\* The proxy URL C6 names for the target of the last pass.
C6_Expected ==
    IF ParseURL(trace.absoluteUrl).protocol = HttpsStr
    THEN (IF EnvHttpsProxy # <<>> THEN EnvHttpsProxy ELSE EnvHttpProxy)
    ELSE (IF EnvHttpProxy # <<>> THEN EnvHttpProxy ELSE EnvHttpsProxy)

\* A pass over a valid absolute http or https target that is not bypassed
\* and carries no agent of the caller.
C6_Case ==
    /\ PassOverAbsoluteTarget
    /\ ParseURL(trace.absoluteUrl).protocol \in {HttpStr, HttpsStr}
    /\ trace.bypass = "false"
    /\ entry.httpAgent = UndefinedAgent
    /\ entry.httpsAgent = UndefinedAgent

\* C6: for such a request the agents injected are those of the HTTPS proxy URL
\* (else of the HTTP one) when the target is https, and those of the HTTP proxy
\* URL (else of the HTTPS one) when it is http, each proxy URL being the
\* variable of the protocol, else ALL_PROXY.
C6_ProxyByTargetScheme ==
    C6_Case
        => /\ trace.proxyUrlToUse = C6_Expected
           /\ ParseURL(C6_Expected).ok => trace.created
           /\ trace.created
                 => /\ C6_Expected \in DOMAIN agentCache
                    /\ config.httpAgent = agentCache[C6_Expected].httpAgent
                    /\ config.httpsAgent = agentCache[C6_Expected].httpsAgent
           /\ ~trace.created => FieldsAsOnEntry

\* C6 witness: an https target, no HTTPS proxy URL, the agents of the HTTP one.
C6_Witness ==
    /\ C6_Case
    /\ ParseURL(trace.absoluteUrl).protocol = HttpsStr
    /\ EnvHttpsProxy = <<>>
    /\ env["http_proxy"] = ProxyWithCredentials
    /\ trace.created
    /\ config.httpsAgent = agentCache[ProxyWithCredentials].httpsAgent

\* C7: an agent field that was set when the configuration entered the
\* interceptor has the same value when the interceptor returns, on every pass;
\* only the fields that were empty are filled.
C7_CallerAgentKept ==
    phase = "returned"
        => /\ entry.httpAgent # UndefinedAgent => config.httpAgent = entry.httpAgent
           /\ entry.httpsAgent # UndefinedAgent
                 => config.httpsAgent = entry.httpsAgent
           /\ config.url = entry.url
           /\ config.baseURL = entry.baseURL

\* C7 witness: the caller's httpAgent was kept while the empty httpsAgent was filled.
C7_Witness ==
    /\ phase = "returned"
    /\ trace.created
    /\ entry.httpAgent = CallerHttpAgent
    /\ config.httpAgent = CallerHttpAgent
    /\ entry.httpsAgent = UndefinedAgent
    /\ config.httpsAgent # UndefinedAgent

\* The request URL is empty, is relative with no base URL, or is malformed.
C8_NoTarget ==
    \/ entry.url = <<>>
    \/ ~ParseURL(entry.url).ok /\ entry.baseURL = <<>>
    \/ ~ParseURL(entry.url).ok /\ ~ParseURL(entry.baseURL).ok

\* C8: when the interceptor returns from a pass in which the URL was empty,
\* relative with no base URL, malformed or bypassed, or in which a step
\* raised, proxy, httpAgent and httpsAgent are as on entry; they change only
\* when a proxy URL was selected and its agent pair obtained.
C8_UnmodifiedUnlessAgentsObtained ==
    phase = "returned"
        => /\ (C8_NoTarget \/ trace.bypass = "true" \/ trace.threw)
                 => FieldsAsOnEntry
           /\ ~FieldsAsOnEntry
                 => /\ trace.proxyUrlToUse # <<>>
                    /\ trace.proxyUrlToUse \in {httpProxyUrl, httpsProxyUrl}
                    /\ trace.proxyUrlToUse \in DOMAIN agentCache

\* C8 witness: the agent constructor raised on the selected proxy URL and the
\* caller's proxy field is still there.
C8_Witness ==
    /\ phase = "returned"
    /\ trace.threw
    /\ trace.proxyUrlToUse = ProxyUnparsable
    /\ entry.proxy = "callerProxy"
    /\ FieldsAsOnEntry

\* scheme://userinfo@host[:port] with its userinfo cut to two characters and "***".
C9_Masked(url) ==
    LET start == IndexOf(url, "/") + 2
        at    == IndexOf(url, "@")
    IN  Take(url, start + 1) \o <<"*", "*", "*", "@">> \o Drop(url, at)

\* url is scheme://userinfo@host[:port], the userinfo longer than two characters.
C9_HasCredentials(url) ==
    LET colon == IndexOf(url, ":")
        at    == IndexOf(url, "@")
    IN  /\ colon > 1
        /\ at > colon + 5
        /\ SubSeq(url, colon, colon + 2) = <<":", "/", "/">>

\* C9: the start-up log shows each proxy URL scheme://userinfo@host[:port] as
\* scheme://, the first two characters of the userinfo, and ***@host[:port].
C9_LogKeepsTwoCharactersOfUserinfo ==
    logLine.enabled
        => /\ C9_HasCredentials(httpProxyUrl)
                 => logLine.http = C9_Masked(httpProxyUrl)
           /\ C9_HasCredentials(httpsProxyUrl)
                 => logLine.https = C9_Masked(httpsProxyUrl)

\* C10: on every list parseNoProxy produces and every valid absolute target,
\* isBypassed returns true or false and does not raise, so that a target no
\* entry matches is proxied.
C10_IsBypassedTotal ==
    PassOverAbsoluteTarget
        => /\ trace.bypass \in {"true", "false"}
           /\ (trace.bypass = "false" /\ ParseURL(trace.proxyUrlToUse).ok)
                 => trace.created

====
